---- MODULE Spec2Model ----
(***************************************************************************)
(* A model of WTFender/sensitivity-labels: the `labels` command            *)
(* (src/cmd/labels/main.go) and the package it drives                      *)
(* (src/sensitivity_labels.go).  Strings are TLA+ strings and are          *)
(* processed character by character, paths are Unix paths, the file        *)
(* system is a function from absolute cleaned paths to nodes.              *)
(***************************************************************************)
EXTENDS Naturals, Sequences, FiniteSets, TLC

(***************************************************************************)
(* Go's strings package, on TLA+ strings.                                  *)
(***************************************************************************)
Ch(s, i) == SubSeq(s, i, i)

Drop(s, n) == SubSeq(s, n + 1, Len(s))

Take(s, n) == SubSeq(s, 1, n)

HasPrefix(s, p) == Len(s) >= Len(p) /\ SubSeq(s, 1, Len(p)) = p

MinOf(S) == CHOOSE m \in S : \A n \in S : m <= n

MaxOf(S) == CHOOSE m \in S : \A n \in S : m >= n

\* the positions at or after i where sub occurs in s
Occurrences(s, sub, i) ==
  {k \in i..(Len(s) + 1 - Len(sub)) : SubSeq(s, k, k + Len(sub) - 1) = sub}

\* the 1-based position of the first occurrence of sub in s at or after i, 0 if none
IndexFrom(s, sub, i) ==
  IF Occurrences(s, sub, i) = {} THEN 0 ELSE MinOf(Occurrences(s, sub, i))

\* strings.Index: the 1-based position of the first occurrence of sub in s, 0 if none
Index(s, sub) == IndexFrom(s, sub, 1)

\* strings.LastIndex: the 1-based position of the last occurrence of sub in s, 0 if none
LastIndex(s, sub) ==
  IF Occurrences(s, sub, 1) = {} THEN 0 ELSE MaxOf(Occurrences(s, sub, 1))

\* strings.ReplaceAll(s, old, new) for a non-empty old
RECURSIVE ReplaceAll(_, _, _)
\* the replacement when the first occurrence of old in s is at i
ReplaceFrom(s, old, new, i) ==
  IF i = 0 THEN s
  ELSE Take(s, i - 1) \o new \o ReplaceAll(Drop(s, i + Len(old) - 1), old, new)

ReplaceAll(s, old, new) == ReplaceFrom(s, old, new, Index(s, old))

\* strings.Split(s, sep) for a non-empty sep: a sequence of strings
RECURSIVE Split(_, _)
\* the split when the first occurrence of sep in s is at i
SplitFrom(s, sep, i) ==
  IF i = 0 THEN <<s>>
  ELSE <<Take(s, i - 1)>> \o Split(Drop(s, i + Len(sep) - 1), sep)

Split(s, sep) == SplitFrom(s, sep, Index(s, sep))

\* strings.Join(elems, sep)
RECURSIVE JoinStr(_, _)
JoinStr(elems, sep) ==
  IF Len(elems) = 0 THEN ""
  ELSE IF Len(elems) = 1 THEN elems[1]
  ELSE elems[1] \o sep \o JoinStr(Tail(elems), sep)

\* the characters of file names in byte order, for sorted directory listings
ByteOrder == "-./0123456789ABCDEFGHIJKLMNOPQRSTUVWXYZ_abcdefghijklmnopqrstuvwxyz"

Ord(c) == Index(ByteOrder, c)

\* s < t in byte-wise lexical order
\* the positions where s and t differ
Differences(s, t) == {k \in 1..Len(s) : k <= Len(t) /\ Ch(s, k) # Ch(t, k)}

\* s < t when D is the set of positions where they differ
LessAt(s, t, D) ==
  IF D = {} THEN Len(s) < Len(t)
  ELSE Ord(Ch(s, MinOf(D))) < Ord(Ch(t, MinOf(D)))

StrLess(s, t) == LessAt(s, t, Differences(s, t))

\* a set of strings as the sequence sorted in lexical order
RECURSIVE SortStrings(_)
SortStrings(S) ==
  IF S = {} THEN <<>>
  ELSE <<CHOOSE x \in S : \A y \in S \ {x} : StrLess(x, y)>>
       \o SortStrings({z \in S : \E y \in S \ {z} : StrLess(y, z)})

(***************************************************************************)
(* Go's path/filepath package on a Unix host.                              *)
(***************************************************************************)
Separator == "/"

RECURSIVE CleanStack(_, _, _)
CleanStack(segs, stack, rooted) ==
  IF Len(segs) = 0 THEN stack
  ELSE CleanStack(Tail(segs),
                  IF Head(segs) \in {"", "."} THEN stack
                  ELSE IF Head(segs) # ".." THEN Append(stack, Head(segs))
                  ELSE IF Len(stack) > 0 /\ stack[Len(stack)] # ".."
                    THEN SubSeq(stack, 1, Len(stack) - 1)
                  ELSE IF rooted THEN stack
                  ELSE Append(stack, ".."),
                  rooted)

\* filepath.Clean
\* the cleaned path from its joined elements
CleanOut(rooted, out) ==
  IF rooted THEN Separator \o out
  ELSE IF out = "" THEN "." ELSE out

Clean(p) ==
  CleanOut(HasPrefix(p, Separator),
           JoinStr(CleanStack(Split(p, Separator), <<>>, HasPrefix(p, Separator)),
                   Separator))

\* filepath.Join of two elements
Join(a, b) ==
  IF a = "" /\ b = "" THEN ""
  ELSE Clean(IF a = "" THEN b ELSE IF b = "" THEN a ELSE a \o Separator \o b)

\* filepath.Dir
Dir(p) == Clean(Take(p, LastIndex(p, Separator)))

\* filepath.Base
\* the last element of a cleaned path
LastElement(q) == IF q = Separator THEN q ELSE Drop(q, LastIndex(q, Separator))

Base(p) == LastElement(Clean(p))

\* filepath.Ext: the suffix of the final element from its last dot
Ext(name) ==
  IF LastIndex(name, ".") <= LastIndex(name, Separator) THEN ""
  ELSE Drop(name, LastIndex(name, ".") - 1)

\* filepath.ToSlash
ToSlash(p) == ReplaceAll(p, Separator, "/")

\* filepath.Rel(base, targ) for a target at or below the base ("" stands for the error)
\* the relative path between two cleaned paths
RelClean(b, t) ==
  IF t = b THEN "."
  ELSE IF b = "." /\ ~HasPrefix(t, Separator) /\ ~HasPrefix(t, "..") THEN t
  ELSE IF b = Separator /\ HasPrefix(t, Separator) THEN Drop(t, 1)
  ELSE IF HasPrefix(t, b \o Separator) THEN Drop(t, Len(b) + 1)
  ELSE ""

Rel(base, targ) == RelClean(Clean(base), Clean(targ))

(***************************************************************************)
(* The label codec.  A Label is the struct of six string fields; the       *)
(* encoder is the Sprintf template, the decoder is encoding/xml's          *)
(* Unmarshal into Labels (root labelList, children label, six attributes   *)
(* matched by local name), in strict mode, reading the document one        *)
(* character at a time.  Numeric character references, CDATA and DOCTYPE   *)
(* are outside the documents considered here.                              *)
(***************************************************************************)
Label(id, siteId, enabled, method, contentBits, removed) ==
  [Id |-> id, SiteId |-> siteId, Enabled |-> enabled, Method |-> method,
   ContentBits |-> contentBits, Removed |-> removed]

EmptyLabel == Label("", "", "", "", "", "")

\* a label element whose siteId is written without braces
LabelElementXmlBareSiteId(label) ==
  "<clbl:label id=\"{" \o label.Id \o "}\" enabled=\"" \o label.Enabled
    \o "\" method=\"" \o label.Method \o "\" siteId=\"" \o label.SiteId
    \o "\" contentBits=\"" \o label.ContentBits \o "\" removed=\""
    \o label.Removed \o "\"/>"

\* one label element of the template: the Sprintf of the six fields
LabelElementXml(label) ==
  "<clbl:label id=\"{" \o label.Id \o "}\" enabled=\"" \o label.Enabled
    \o "\" method=\"" \o label.Method \o "\" siteId=\"{" \o label.SiteId
    \o "}\" contentBits=\"" \o label.ContentBits \o "\" removed=\""
    \o label.Removed \o "\"/>"

XmlDeclaration == "<?xml version=\"1.0\" encoding=\"utf-8\" standalone=\"yes\"?>"

LabelListOpen ==
  "<clbl:labelList xmlns:clbl=\"http://schemas.microsoft.com/office/2020/mipLabelMetadata\">"

LabelListClose == "</clbl:labelList>"

RECURSIVE LabelElementsXml(_)
LabelElementsXml(labels) ==
  IF Len(labels) = 0 THEN ""
  ELSE LabelElementXml(Head(labels)) \o LabelElementsXml(Tail(labels))

templateLabelInfoXml(labels) ==
  XmlDeclaration \o LabelListOpen \o LabelElementsXml(labels) \o LabelListClose

NameBytes == "ABCDEFGHIJKLMNOPQRSTUVWXYZabcdefghijklmnopqrstuvwxyz0123456789_:.-"

NameByteSet == {Ch(NameBytes, i) : i \in 1..Len(NameBytes)}

IsNameByte(c) == c \in NameByteSet

IsSpace(c) == c = " " \/ c = "\n" \/ c = "\t" \/ c = "\r"

\* the least member of a set of positions, d when there is none
FirstOr(S, d) == IF S = {} THEN d ELSE MinOf(S)

\* the first position at or after i that holds no white space
SkipSpace(s, i) == FirstOr({k \in i..Len(s) : ~IsSpace(Ch(s, k))}, Len(s) + 1)

\* the position after the name that starts at i (i itself when no name starts there)
NameEnd(s, i) == FirstOr({k \in i..Len(s) : ~IsNameByte(Ch(s, k))}, Len(s) + 1)

\* the local part of the qualified name n whose first colon is at i
LocalFrom(n, i) ==
  IF i = 0 \/ i = 1 \/ i = Len(n) \/ Index(Drop(n, i), ":") > 0 THEN n ELSE Drop(n, i)

\* the local part of a qualified name (Decoder.nsname)
LocalName(n) == LocalFrom(n, Index(n, ":"))

\* the five predefined entities ("" stands for an unknown one)
EntityChar(n) ==
  IF n = "lt" THEN "<" ELSE IF n = "gt" THEN ">" ELSE IF n = "amp" THEN "&"
  ELSE IF n = "apos" THEN "'" ELSE IF n = "quot" THEN "\"" ELSE ""

RECURSIVE ExpandEntities(_)
\* the text before a reference, the referenced character and the expanded rest
Expanded(head, e, r) == [ok |-> r.ok, val |-> head \o e \o r.val]

\* the expansion of raw whose first reference starts at i and whose name ends before j
ExpandRef(raw, i, j) ==
  IF j > Len(raw) \/ Ch(raw, j) # ";" \/ EntityChar(SubSeq(raw, i + 1, j - 1)) = ""
    THEN [ok |-> FALSE, val |-> ""]
    ELSE Expanded(Take(raw, i - 1), EntityChar(SubSeq(raw, i + 1, j - 1)),
                  ExpandEntities(Drop(raw, j)))

\* a raw attribute value with its entity references replaced
ExpandEntities(raw) ==
  IF Index(raw, "&") = 0 THEN [ok |-> TRUE, val |-> raw]
  ELSE ExpandRef(raw, Index(raw, "&"), NameEnd(raw, Index(raw, "&") + 1))

\* the attribute value that starts at i and closes at j, x its expansion
AttrClosed(i, j, hasLt, x) ==
  IF j = 0 \/ hasLt \/ ~x.ok
    THEN [ok |-> FALSE, val |-> "", next |-> i]
    ELSE [ok |-> TRUE, val |-> x.val, next |-> j + 1]

\* the text of a quoted attribute value from position i up to the closing quote q
AttrText(s, i, q) ==
  AttrClosed(i, IndexFrom(s, q, i),
             Index(SubSeq(s, i, IndexFrom(s, q, i) - 1), "<") > 0,
             ExpandEntities(SubSeq(s, i, IndexFrom(s, q, i) - 1)))

RECURSIVE ReadAttrs(_, _, _)
\* the attribute list cut short by a syntax error at j
BadAttrs(acc, j) == [ok |-> FALSE, attrs |-> acc, empty |-> FALSE, next |-> j]

\* the attribute named by s[j..k-1] with the quoted value t, then the rest of the tag
AttrValued(s, j, k, t, acc) ==
  IF ~t.ok THEN BadAttrs(acc, j)
  ELSE ReadAttrs(s, t.next, Append(acc, [name |-> SubSeq(s, j, k - 1), val |-> t.val]))

\* the attribute whose name is s[j..k-1], whose = is at e and whose quote is at v
AttrNamed(s, j, k, e, v, acc) ==
  IF k = j \/ e > Len(s) \/ Ch(s, e) # "=" \/ v > Len(s) \/ Ch(s, v) \notin {"\"", "'"}
    THEN BadAttrs(acc, j)
    ELSE AttrValued(s, j, k, AttrText(s, v + 1, Ch(s, v)), acc)

\* the rest of a start tag whose next non-space character is at j
AttrsFrom(s, j, acc) ==
  IF j > Len(s) THEN BadAttrs(acc, j)
  ELSE IF Ch(s, j) = "/" THEN
    IF j + 1 <= Len(s) /\ Ch(s, j + 1) = ">"
      THEN [ok |-> TRUE, attrs |-> acc, empty |-> TRUE, next |-> j + 2]
      ELSE BadAttrs(acc, j)
  ELSE IF Ch(s, j) = ">" THEN [ok |-> TRUE, attrs |-> acc, empty |-> FALSE, next |-> j + 1]
  ELSE AttrNamed(s, j, NameEnd(s, j), SkipSpace(s, NameEnd(s, j)),
                 SkipSpace(s, SkipSpace(s, NameEnd(s, j)) + 1), acc)

\* the attributes of a start tag from position i, up to its > or />
ReadAttrs(s, i, acc) == AttrsFrom(s, SkipSpace(s, i), acc)

Token(kind, name, attrs, next) ==
  [kind |-> kind, name |-> name, attrs |-> attrs, next |-> next]

\* a token that runs from i to the terminator of length n found at j (0: not found)
TokenUpTo(kind, i, j, n) ==
  IF j = 0 THEN Token("error", "", <<>>, i) ELSE Token(kind, "", <<>>, j + n)

\* the end tag at i whose name ends before k and whose > is expected at e
EndToken(s, i, k, e) ==
  IF k = i + 2 \/ e > Len(s) \/ Ch(s, e) # ">" THEN Token("error", "", <<>>, i)
  ELSE Token("end", SubSeq(s, i + 2, k - 1), <<>>, e + 1)

\* the start tag at i whose name ends before k, a its attributes
StartToken(s, i, k, a) ==
  IF k = i + 1 \/ ~a.ok THEN Token("error", "", <<>>, i)
  ELSE Token(IF a.empty THEN "empty" ELSE "start", SubSeq(s, i + 1, k - 1), a.attrs, a.next)

\* Decoder.Token: the token that starts at position i
ReadToken(s, i) ==
  IF i > Len(s) THEN Token("eof", "", <<>>, i)
  ELSE IF Ch(s, i) # "<" THEN Token("text", "", <<>>, FirstOr(Occurrences(s, "<", i), Len(s) + 1))
  ELSE IF SubSeq(s, i, i + 1) = "<?" THEN TokenUpTo("pi", i, IndexFrom(s, "?>", i + 2), 2)
  ELSE IF SubSeq(s, i, i + 3) = "<!--"
    THEN TokenUpTo("comment", i, IndexFrom(s, "-->", i + 4), 3)
  ELSE IF SubSeq(s, i, i + 1) = "</"
    THEN EndToken(s, i, NameEnd(s, i + 2), SkipSpace(s, NameEnd(s, i + 2)))
  ELSE StartToken(s, i, NameEnd(s, i + 1), ReadAttrs(s, NameEnd(s, i + 1), <<>>))

RECURSIVE SkipElement(_, _, _)
\* the skip continued after the token t
SkipToken(s, t, open) ==
  IF t.kind \in {"error", "eof"} THEN 0
  ELSE IF t.kind = "start" THEN SkipElement(s, t.next, Append(open, t.name))
  ELSE IF t.kind = "end" THEN
    IF t.name # open[Len(open)] THEN 0
    ELSE IF Len(open) = 1 THEN t.next
    ELSE SkipElement(s, t.next, SubSeq(open, 1, Len(open) - 1))
  ELSE SkipElement(s, t.next, open)

\* Decoder.Skip: the position after the end tag that closes the open elements
\* (innermost last) in `open`, 0 on a syntax error, a mismatched tag or the end of input
SkipElement(s, i, open) == SkipToken(s, ReadToken(s, i), open)

\* the label with the attribute value copied into the field the local name n selects
SetField(label, n, val) ==
  IF n = "id" THEN [label EXCEPT !.Id = val]
  ELSE IF n = "siteId" THEN [label EXCEPT !.SiteId = val]
  ELSE IF n = "enabled" THEN [label EXCEPT !.Enabled = val]
  ELSE IF n = "method" THEN [label EXCEPT !.Method = val]
  ELSE IF n = "contentBits" THEN [label EXCEPT !.ContentBits = val]
  ELSE IF n = "removed" THEN [label EXCEPT !.Removed = val]
  ELSE label

\* the attributes copied into the fields their local names select, in document order
RECURSIVE LabelFromAttrs(_, _)
LabelFromAttrs(attrs, label) ==
  IF Len(attrs) = 0 THEN label
  ELSE LabelFromAttrs(Tail(attrs),
                      SetField(label, LocalName(Head(attrs).name), Head(attrs).val))

RECURSIVE UnmarshalChildren(_, _, _, _)
\* the children after an element that ends before `after` (0: it does not end)
ChildrenAfter(s, after, root, acc, got) ==
  IF after = 0 THEN [ok |-> FALSE, labels |-> acc]
  ELSE UnmarshalChildren(s, after, root, got)

\* the children of the root, continued after the token t
ChildrenToken(s, t, root, acc) ==
  IF t.kind \in {"error", "eof"} THEN [ok |-> FALSE, labels |-> acc]
  ELSE IF t.kind = "end" THEN [ok |-> t.name = root, labels |-> acc]
  ELSE IF t.kind \in {"empty", "start"} THEN
    ChildrenAfter(s,
                  IF t.kind = "empty" THEN t.next ELSE SkipElement(s, t.next, <<t.name>>),
                  root, acc,
                  IF LocalName(t.name) = "label"
                    THEN Append(acc, LabelFromAttrs(t.attrs, EmptyLabel))
                    ELSE acc)
  ELSE UnmarshalChildren(s, t.next, root, acc)

\* the children of the root from position i: the labels decoded before the root's
\* end tag, a syntax error or the end of the input
UnmarshalChildren(s, i, root, acc) == ChildrenToken(s, ReadToken(s, i), root, acc)

RECURSIVE FirstElement(_, _)
FirstToken(s, t) ==
  IF t.kind \in {"text", "pi", "comment"} THEN FirstElement(s, t.next) ELSE t

\* the first start element at or after position i
FirstElement(s, i) == FirstToken(s, ReadToken(s, i))

\* the document s decoded from its root element's start token t
UnmarshalRoot(s, t) ==
  IF t.kind \notin {"start", "empty"} \/ LocalName(t.name) # "labelList"
    THEN [ok |-> FALSE, labels |-> <<>>]
  ELSE IF t.kind = "empty" THEN [ok |-> TRUE, labels |-> <<>>]
  ELSE UnmarshalChildren(s, t.next, t.name, <<>>)

\* xml.Unmarshal(bytes, &labels): the error flag and what labels holds afterwards
Unmarshal(s) == UnmarshalRoot(s, FirstElement(s, 1))

(***************************************************************************)
(* The file system.  A file's contents are text, a zip archive (its        *)
(* entries in archive order) or a torn byte stream that no reader accepts. *)
(* A relative path is resolved against the process's working directory.    *)
(***************************************************************************)
Text(str) == [kind |-> "text", s |-> str, entries |-> <<>>]

ZipOf(entries) == [kind |-> "zip", s |-> "", entries |-> entries]

Torn == [kind |-> "torn", s |-> "", entries |-> <<>>]

NoData == [kind |-> "none", s |-> "", entries |-> <<>>]

DirNode == [dir |-> TRUE, data |-> NoData]

FileNode(c) == [dir |-> FALSE, data |-> c]

Cwd == "/w"

\* the absolute cleaned path the kernel resolves p to
Abs(p) == Clean(IF HasPrefix(p, Separator) THEN p ELSE Cwd \o Separator \o p)

Exists(f, p) == Abs(p) \in DOMAIN f

\* the node at the absolute path a is a directory, a file
DirAt(f, a) == a \in DOMAIN f /\ f[a].dir

FileAt(f, a) == a \in DOMAIN f /\ ~f[a].dir

IsDir(f, p) == DirAt(f, Abs(p))

IsFile(f, p) == FileAt(f, Abs(p))

\* the root and the directories named by the prefixes of a sequence of path elements
Prefixes(segs) ==
  {Separator} \cup {Separator \o JoinStr(SubSeq(segs, 1, n), Separator) : n \in 1..Len(segs)}

\* the absolute path a and the directories above it
Ancestors(a) ==
  IF a = Separator THEN {Separator} ELSE Prefixes(Split(Drop(a, 1), Separator))

\* os.MkdirAll: the missing directories of the path are created, unless a file is in the way
MkdirAll(f, p) ==
  IF \E a \in Ancestors(Abs(p)) : FileAt(f, a) THEN f
  ELSE [a \in DOMAIN f \cup Ancestors(Abs(p)) |-> IF a \in DOMAIN f THEN f[a] ELSE DirNode]

\* whether opening p with O_WRONLY|O_CREATE|O_TRUNC succeeds
CanCreate(f, p) == DirAt(f, Dir(Abs(p))) /\ ~IsDir(f, p)

\* the file p holding the contents c
WithFile(f, p, c) == (Abs(p) :> FileNode(c)) @@ f

\* os.RemoveAll
RemoveAll(f, p) == [q \in {r \in DOMAIN f : ~HasPrefix(r \o Separator, Abs(p) \o Separator)} |-> f[q]]

\* os.ReadDir: the names in the directory, sorted by file name
ReadDir(f, d) == SortStrings({Base(q) : q \in {r \in DOMAIN f \ {Separator} : Dir(r) = Abs(d)}})

\* filepath.Walk and filepath.WalkDir: the paths visited below and including root, in
\* lexical order, each child as the Join of its directory's path and its name
RECURSIVE WalkFrom(_, _)
RECURSIVE WalkNames(_, _, _)
WalkNames(f, d, names) ==
  IF Len(names) = 0 THEN <<>>
  ELSE WalkFrom(f, Join(d, Head(names))) \o WalkNames(f, d, Tail(names))

WalkFrom(f, p) ==
  IF IsDir(f, p) THEN <<p>> \o WalkNames(f, p, ReadDir(f, p)) ELSE <<p>>

Walk(f, root) == WalkFrom(f, root)

(***************************************************************************)
(* The package: file discovery, the label locator, the packer.             *)
(***************************************************************************)
RECURSIVE isExtensionFile(_, _)
isExtensionFile(name, exts) ==
  IF Len(exts) = 0 THEN FALSE
  ELSE IF Ext(name) = Head(exts) THEN TRUE
  ELSE isExtensionFile(name, Tail(exts))

filterFilesByExtension(files, exts) ==
  SelectSeq(files, LAMBDA name : isExtensionFile(name, exts))

\* the names (FileInfo.Name) of the files found
\* the FileInfo.Name of each path
Names(paths) == [i \in 1..Len(paths) |-> Base(paths[i])]

\* a discovery that does not drop the directories from the listing
ListExtensionFilesKeepDirs(f, dir, recursive, exts) ==
  filterFilesByExtension(ReadDir(f, dir), exts)

ListExtensionFiles(f, dir, recursive, exts) ==
  filterFilesByExtension(
    IF ~recursive
      THEN SelectSeq(ReadDir(f, dir), LAMBDA name : ~IsDir(f, dir \o Separator \o name))
      ELSE Names(SelectSeq(Walk(f, dir), LAMBDA path : ~IsDir(f, path))),
    exts)

CheckLabelInfoPath(f, dirPath) ==
  [exists |-> Exists(f, dirPath \o "/docMetadata/LabelInfo.xml"),
   path |-> dirPath \o "/docMetadata/LabelInfo.xml"]

\* a packer that names each entry by the last element of its path
ZipEntriesBaseNames(f, dir, paths) ==
  [i \in 1..Len(paths) |-> [name |-> Base(paths[i]), data |-> f[Abs(paths[i])].data]]

\* Zip: one entry per file below dir, named by its slash-separated relative path
ZipEntries(f, dir, paths) ==
  [i \in 1..Len(paths) |->
     [name |-> ToSlash(Rel(dir, paths[i])), data |-> f[Abs(paths[i])].data]]

Zip(f, dir) ==
  ZipOf(ZipEntries(f, dir, SelectSeq(Walk(f, dir), LAMBDA path : ~IsDir(f, path))))

\* an archive entry is a directory when its name ends in a slash
IsDirEntry(e) == Len(e.name) > 0 /\ Ch(e.name, Len(e.name)) = "/"

\* Unzip without the ZipSlip test: every joined path is accepted
NoZipSlipTest(path, dest) == TRUE

\* the ZipSlip test of Unzip on the joined path
IsLegalPath(path, dest) == HasPrefix(path, Clean(dest) \o Separator)

(***************************************************************************)
(* The bounds of the model and the inputs of a run.                        *)
(***************************************************************************)
MaxRuns == 3

MaxFaults == 1

DefaultExtensionsCsv == ".docx,.xlsx,.pptx"

DefaultTmpDir == "./"

OfficeLabel(id, siteId) == Label(id, siteId, "1", "Privileged", "0", "0")

\* a label document as an Office application writes it (the layout of the README's example)
OfficeLabelInfoXml ==
  XmlDeclaration \o "\n" \o LabelListOpen \o "\n  "
    \o "<clbl:label id=\"{c55117b6}\" enabled=\"1\" method=\"Privileged\" "
    \o "siteId=\"{37b1cb57}\" contentBits=\"0\" removed=\"0\" />"
    \o "\n" \o LabelListClose

TwoLabelsXml ==
  templateLabelInfoXml(<<OfficeLabel("L1", "S1"), Label("L2", "S2", "0", "Standard", "8", "1")>>)

\* a label document that is cut off in its second label element
TruncatedLabelInfoXml ==
  XmlDeclaration \o LabelListOpen \o LabelElementXml(OfficeLabel("L9", "S9"))
    \o "<clbl:label id=\"{L8}\" enabled=\"1"

\* the directories on disk before the first run
InitialDirs ==
  {Separator, "/w", "/w/docs", "/w/docs/old.docx", "/w/docs/sub", "/w/evil", "/w/old"}

\* the files on disk before the first run
InitialFiles ==
  ("/w/docs/a.docx" :>
     ZipOf(<<[name |-> "docMetadata/LabelInfo.xml", data |-> Text(TwoLabelsXml)],
             [name |-> "word/document.xml", data |-> Text("<w:document/>")]>>))
  @@ ("/w/docs/b.txt" :> Text("notes"))
  @@ ("/w/docs/c.xlsx" :>
     ZipOf(<<[name |-> "xl/workbook.xml", data |-> Text("<workbook/>")],
             [name |-> "docMetadata/", data |-> NoData],
             [name |-> "docMetadata/LabelInfo.xml",
              data |-> Text(templateLabelInfoXml(<<>>))]>>))
  @@ ("/w/docs/d.DOCX" :>
     ZipOf(<<[name |-> "word/document.xml", data |-> Text("<w:document/>")]>>))
  @@ ("/w/docs/sub/e.pptx" :>
     ZipOf(<<[name |-> "docMetadata/LabelInfo.xml", data |-> Text(OfficeLabelInfoXml)],
             [name |-> "ppt/presentation.xml", data |-> Text("<p/>")]>>))
  @@ ("/w/docs/p.docx" :>
     ZipOf(<<[name |-> "word/document.xml", data |-> Text("<w:document/>")]>>))
  @@ ("/w/docs/old.docx/old.docx" :>
     ZipOf(<<[name |-> "word/document.xml", data |-> Text("<w:document/>")]>>))
  @@ ("/w/n.docx" :>
     ZipOf(<<[name |-> "word/document.xml", data |-> Text("<w:document/>")]>>))
  @@ ("/w/old/p.docx" :>
     ZipOf(<<[name |-> "docMetadata/LabelInfo.xml", data |-> Text(TruncatedLabelInfoXml)],
             [name |-> "word/document.xml", data |-> Text("<w:old/>")]>>))
  @@ ("/w/evil/z.docx" :>
     ZipOf(<<[name |-> "ok.txt", data |-> Text("ok")],
             [name |-> "../../evil.txt", data |-> Text("evil")],
             [name |-> "late.txt", data |-> Text("late")]>>))

InitialFs ==
  [a \in InitialDirs \cup DOMAIN InitialFiles |->
     IF a \in InitialDirs THEN DirNode ELSE FileNode(InitialFiles[a])]

Paths == {"docs", "docs/a.docx", "docs/p.docx", "evil/z.docx"}

\* a file named by its bare name, by an absolute path, and by a path that holds the
\* file's name twice
SingleFilePaths == {"n.docx", "/w/docs/p.docx", "docs/old.docx/old.docx"}

\* an archive with the name of docs/p.docx in another directory
SameNamePath == "old/p.docx"

\* the <labelId> <tenantId> arguments of set
IdPairs == {<<"A1", "T1">>, <<"{B2}", "T2">>, <<"q\"x", "T1">>}

Args(cmd, path, ids, dryrun, noCleanup, recurse) ==
  [cmd |-> cmd, path |-> path, labelId |-> ids[1], tenantId |-> ids[2],
   extensionsCsv |-> DefaultExtensionsCsv, tmpDir |-> DefaultTmpDir,
   dryrun |-> dryrun, noCleanup |-> noCleanup, recurse |-> recurse,
   showLabeledOnly |-> FALSE]

\* the command lines: get takes no identifiers; the recursive flag is given with
\* directories, the dry-run flag with set; the single files and the archive of the
\* same name are read with get
CommandLines ==
  {a \in {Args("get", path, <<"", "">>, FALSE, noCleanup, recurse) :
            path \in Paths, noCleanup \in BOOLEAN, recurse \in BOOLEAN}
          \cup
          {Args("set", path, ids, dryrun, noCleanup, recurse) :
            path \in Paths, ids \in IdPairs, dryrun \in BOOLEAN,
            noCleanup \in BOOLEAN, recurse \in BOOLEAN} :
     a.recurse => a.path \in {"docs"}}
  \cup {Args("get", path, <<"", "">>, FALSE, FALSE, FALSE) : path \in SingleFilePaths}
  \cup {Args("get", SameNamePath, <<"", "">>, FALSE, noCleanup, FALSE) :
          noCleanup \in BOOLEAN}

\* the archives that a get is run on twice in a row
RepeatedPaths == {"docs/a.docx", "docs/p.docx"}

\* the command lines of the n-th run when the run before it was given `last`: the
\* second run is a get run, and a get of one of the repeated archives is run again
Invocations(n, last) ==
  IF n = 1 THEN CommandLines
  ELSE IF n = 2 THEN {a \in CommandLines : a.cmd = "get"}
  ELSE {a \in {last} : a.path \in RepeatedPaths /\ ~a.noCleanup}

NoArgs == Args("", "", <<"", "">>, FALSE, FALSE, FALSE)

(***************************************************************************)
(* The state.                                                              *)
(***************************************************************************)
VARIABLES
  fs,    \* the file system
  pc,    \* where main is
  args,  \* the flags and arguments of the run
  m,     \* main's locals
  out,   \* the lines printed by the run
  h,     \* what has happened: counters and snapshots the properties refer to
  codec  \* the codec's input, document and output (the codec specification)

vars == <<fs, pc, args, m, out, h, codec>>

NoLabels == <<>>

M0 ==
  [path |-> "", files |-> <<>>, idx |-> 0, filePath |-> "", tmpUnzipDir |-> "",
   entries |-> <<>>, ei |-> 0, labelInfoExists |-> FALSE, labelInfoPath |-> "",
   fl |-> [FilePath |-> "", LabelInfo |-> FALSE, Labels |-> NoLabels],
   zipBytes |-> NoData, fileLabels |-> <<>>, exit |-> 0, why |-> ""]

H0 ==
  [runs |-> 0, faults |-> 0, fs0 |-> InitialFs, orig |-> NoData, destExisted |-> FALSE,
   madeDirs |-> {}, written |-> {}, archiveOpens |-> 0, labelWrites |-> 0,
   last |-> [a \in {} |-> 0], runFs |-> InitialFs, done |-> <<>>,
   prev |-> [cmd |-> "", path |-> "", lines |-> <<>>], xmlErr |-> FALSE]

Codec0 == [phase |-> "off", labels |-> NoLabels, doc |-> "", decoded |-> NoLabels]

Init ==
  /\ fs = InitialFs
  /\ pc = "idle"
  /\ args = NoArgs
  /\ m = M0
  /\ out = <<>>
  /\ h = H0
  /\ codec = Codec0

\* an input/output operation may fail while the budget of failures lasts
Outcomes == IF h.faults < MaxFaults THEN {"ok", "ioerr"} ELSE {"ok"}

Faulted(o) == IF o = "ioerr" THEN h.faults + 1 ELSE h.faults

\* the record of the processing cycle of the archive at filePath, kept when it ends
\* (why names the call that failed, "" when the cycle ran to its end)
Cycle(why, labels) ==
  [run |-> h.runs, dryrun |-> args.dryrun, labelId |-> args.labelId,
   tenantId |-> args.tenantId, before |-> h.orig, why |-> why, labels |-> labels]

\* the last set cycle of each archive, with the cycle that ends now
Remember(hh, why, labels) ==
  IF m.filePath = "" \/ args.cmd # "set" THEN hh.last
  ELSE [a \in DOMAIN hh.last \cup {Abs(m.filePath)} |->
          IF a = Abs(m.filePath) THEN Cycle(why, labels) ELSE hh.last[a]]

\* an ExitError that prints the message and goes on with the next file
ExitErrorSkipsFile(msg, why, hh) ==
  /\ out' = Append(out, msg)
  /\ pc' = "loop"
  /\ m' = [m EXCEPT !.why = why]
  /\ h' = [hh EXCEPT !.last = Remember(hh, why, NoLabels)]

\* ExitError: the message is printed and the process exits with status 1
ExitError(msg, why, hh) ==
  /\ out' = Append(out, msg)
  /\ pc' = "exited"
  /\ m' = [m EXCEPT !.exit = 1, !.why = why]
  /\ h' = [hh EXCEPT !.last = Remember(hh, why, NoLabels)]

\* strings.TrimSpace
\* the string between the first and the last of the positions J
Between(str, J) == IF J = {} THEN "" ELSE SubSeq(str, MinOf(J), MaxOf(J))

TrimSpace(str) == Between(str, {k \in 1..Len(str) : ~IsSpace(Ch(str, k))})

\* strconv.Itoa of a natural number
RECURSIVE Itoa(_)
Itoa(n) ==
  IF n < 10 THEN Ch("0123456789", n + 1)
  ELSE Itoa(n \div 10) \o Ch("0123456789", (n % 10) + 1)

FormatBool(b) == IF b THEN "true" ELSE "false"

\* the lines of the output that report a file
ReportLines(lines) ==
  SelectSeq(lines, LAMBDA l : HasPrefix(l, "true ") \/ HasPrefix(l, "false "))

\* flag.Parse and checkArgs: the arguments are taken and the warnings printed
checkArgs ==
  /\ pc \in {"idle", "exited"}
  /\ h.runs < MaxRuns
  /\ \E a \in Invocations(h.runs + 1, args) :
       /\ args' = a
       /\ out' = (IF a.noCleanup THEN <<"warn: temporary directory will not be removed">>
                  ELSE <<>>)
                 \o (IF a.dryrun THEN <<"warn: dry-run enabled">> ELSE <<>>)
       /\ m' = [M0 EXCEPT !.path = a.path]
  /\ pc' = "stat"
  /\ h' = [h EXCEPT !.runs = @ + 1, !.fs0 = fs, !.orig = NoData, !.destExisted = FALSE,
                    !.madeDirs = {}, !.written = {}, !.archiveOpens = 0,
                    !.labelWrites = 0, !.runFs = fs, !.done = <<>>,
                    !.prev = [cmd |-> args.cmd, path |-> args.path,
                              lines |-> ReportLines(out)]]
  /\ UNCHANGED <<fs, codec>>

extensions == Split(TrimSpace(args.extensionsCsv), ",")

\* main: the path is checked and the files to process are listed
main_Stat ==
  /\ pc = "stat"
  /\ UNCHANGED <<fs, args, codec>>
  /\ IF ~Exists(fs, m.path)
       THEN ExitError("stat " \o m.path \o ": no such file or directory", "stat", h)
     ELSE /\ pc' = "header"
          /\ m' = IF IsDir(fs, m.path)
                    THEN [m EXCEPT !.files = ListExtensionFiles(fs, m.path, FALSE, extensions)]
                    ELSE [m EXCEPT !.files = <<Base(m.path)>>,
                                   !.path = ReplaceAll(m.path, Base(m.path), "")]
          /\ UNCHANGED <<out, h>>

\* main: the header is printed, or the run ends when there is no file
main_Header ==
  /\ pc = "header"
  /\ UNCHANGED <<fs, args, h, codec>>
  /\ IF Len(m.files) = 0
       THEN /\ out' = Append(out, "No files found")
            /\ pc' = "exited"
            /\ m' = [m EXCEPT !.exit = 0, !.why = "nofiles"]
       ELSE /\ out' = Append(out, "LabelInfo FilePath NumLabels Labels")
            /\ pc' = "loop"
            /\ UNCHANGED m

\* main: the next file of the loop, its path and its working directory
main_NextFile ==
  /\ pc = "loop"
  /\ m.idx < Len(m.files)
  /\ LET name == m.files[m.idx + 1]
         filePath == m.path \o "/" \o name
     IN /\ m' = [m EXCEPT !.idx = @ + 1, !.filePath = filePath,
                          !.tmpUnzipDir = args.tmpDir \o "/_" \o name,
                          !.entries = <<>>, !.ei = 0, !.zipBytes = NoData]
        /\ h' = [h EXCEPT !.fs0 = fs,
                          !.orig = IF IsFile(fs, filePath) THEN fs[Abs(filePath)].data
                                   ELSE NoData,
                          !.destExisted = FALSE, !.written = {}, !.archiveOpens = 0,
                          !.xmlErr = FALSE]
  /\ pc' = "unzip"
  /\ UNCHANGED <<fs, args, out, codec>>

\* main: the loop is over and the process exits with status 0
main_Return ==
  /\ pc = "loop"
  /\ m.idx = Len(m.files)
  /\ pc' = "exited"
  /\ m' = [m EXCEPT !.exit = 0, !.why = "done"]
  /\ UNCHANGED <<fs, args, out, h, codec>>

\* a main that does not look at the dry-run flag
AfterReadNoDryRun == IF args.cmd = "set" THEN "SetLabelInfoXml" ELSE "print"

\* where main goes once the labels of the file are read
AfterRead ==
  IF args.cmd = "set" THEN (IF args.dryrun THEN "dryrun" ELSE "SetLabelInfoXml") ELSE "print"

\* Unzip: the archive is opened and the destination directory made
Unzip_Open ==
  /\ pc = "unzip"
  /\ UNCHANGED <<args, codec>>
  /\ \E o \in Outcomes, a \in {Abs(m.filePath)}, existed \in {Exists(fs, m.tmpUnzipDir)} :
       LET hh == [h EXCEPT !.faults = Faulted(o)] IN
       IF o = "ioerr"
         THEN /\ ExitError("open " \o m.filePath \o ": input/output error", "Unzip", hh)
              /\ UNCHANGED fs
       ELSE IF a \notin DOMAIN fs
         THEN /\ ExitError("open " \o m.filePath \o ": no such file or directory", "Unzip", hh)
              /\ UNCHANGED fs
       ELSE IF fs[a].dir \/ fs[a].data.kind # "zip"
         THEN /\ ExitError("zip: not a valid zip file", "Unzip", hh)
              /\ UNCHANGED fs
       ELSE /\ fs' = MkdirAll(fs, m.tmpUnzipDir)
            /\ m' = [m EXCEPT !.entries = fs[a].data.entries, !.ei = 1]
            /\ h' = [hh EXCEPT !.destExisted = existed,
                               !.madeDirs = IF existed THEN @ ELSE @ \cup {Abs(m.tmpUnzipDir)}]
            /\ pc' = IF Len(fs[a].data.entries) = 0 THEN "locate" ELSE "extract"
            /\ UNCHANGED out

\* the paths that exist in the file system g and not in f
Created(f, g) == DOMAIN g \ DOMAIN f

\* extractAndWriteFile once the path is accepted: made is the file system after MkdirAll
\* and wrote the paths the entry has created or written
extractAndWriteFile(o, hh, e, path, made, wrote) ==
  IF IsDirEntry(e)
    THEN /\ o = "ok"
         /\ fs' = made
         /\ h' = [hh EXCEPT !.written = @ \cup wrote]
         /\ m' = [m EXCEPT !.ei = @ + 1]
         /\ pc' = IF m.ei = Len(m.entries) THEN "locate" ELSE "extract"
         /\ UNCHANGED out
  ELSE IF ~CanCreate(made, path)
    THEN /\ o = "ok"
         /\ fs' = made
         /\ ExitError("open " \o path \o ": no such file or directory", "Unzip",
                      [hh EXCEPT !.written = @ \cup Created(fs, made)])
  ELSE IF o = "ioerr"
    THEN /\ fs' = WithFile(made, path, Torn)
         /\ ExitError("write " \o path \o ": input/output error", "Unzip",
                      [hh EXCEPT !.written = @ \cup wrote])
  ELSE /\ fs' = WithFile(made, path, e.data)
       /\ h' = [hh EXCEPT !.written = @ \cup wrote]
       /\ m' = [m EXCEPT !.ei = @ + 1]
       /\ pc' = IF m.ei = Len(m.entries) THEN "locate" ELSE "extract"
       /\ UNCHANGED out

\* Unzip: the next entry is joined to the destination, tested and extracted
Unzip_Entry ==
  /\ pc = "extract"
  /\ UNCHANGED <<args, codec>>
  /\ \E o \in Outcomes, path \in {Join(m.tmpUnzipDir, m.entries[m.ei].name)} :
       IF ~IsLegalPath(path, m.tmpUnzipDir)
         THEN /\ o = "ok"
              /\ ExitError("illegal file path: " \o path, "traversal", h)
              /\ UNCHANGED fs
         ELSE \E made \in {MkdirAll(fs, IF IsDirEntry(m.entries[m.ei]) THEN path
                                        ELSE Dir(path))} :
                extractAndWriteFile(o, [h EXCEPT !.faults = Faulted(o)], m.entries[m.ei],
                                    path, made, Created(fs, made) \cup {Abs(path)})

\* main: the label locator, and the FileLabel of the file
main_Locate ==
  /\ pc = "locate"
  /\ \E c \in {CheckLabelInfoPath(fs, m.tmpUnzipDir)} :
       /\ m' = [m EXCEPT !.labelInfoExists = c.exists, !.labelInfoPath = c.path,
                         !.fl = [FilePath |-> m.filePath, LabelInfo |-> c.exists,
                                 Labels |-> NoLabels]]
       /\ pc' = IF c.exists THEN "GetLabelInfoXml" ELSE AfterRead
  /\ UNCHANGED <<fs, args, out, h, codec>>

\* os.Open and io.ReadAll: the bytes read, none when the read fails
ReadBytes(f, a, o) == IF o = "ioerr" \/ ~FileAt(f, a) THEN "" ELSE f[a].data.s

ReadFile(f, p, o) == ReadBytes(f, Abs(p), o)

\* GetLabelInfoXml: the document is read and unmarshalled, every error ignored
GetLabelInfoXml ==
  /\ pc = "GetLabelInfoXml"
  /\ \E o \in Outcomes :
       /\ m' = [m EXCEPT !.fl.Labels = Unmarshal(ReadFile(fs, m.labelInfoPath, o)).labels]
       /\ out' = IF o = "ioerr"
                   THEN Append(out, "open " \o m.labelInfoPath \o ": input/output error")
                   ELSE out
       /\ h' = [h EXCEPT !.faults = Faulted(o),
                         !.xmlErr = ~Unmarshal(ReadFile(fs, m.labelInfoPath, o)).ok]
  /\ pc' = AfterRead
  /\ UNCHANGED <<fs, args, codec>>

\* the LabelSet that set applies
newLabels == <<Label(args.labelId, args.tenantId, "1", "Privileged", "0", "0")>>

\* main: with dry-run the new labels are only reported
main_DryRun ==
  /\ pc = "dryrun"
  /\ m' = [m EXCEPT !.fl.Labels = newLabels]
  /\ pc' = "print"
  /\ UNCHANGED <<fs, args, out, h, codec>>

\* SetLabelInfoXml fails: it prints its warning and the error, SetLabels returns the
\* error and main exits with it
SetLabelInfoXmlError(msg, hh) ==
  /\ out' = out \o <<"warn: error writing " \o m.labelInfoPath, msg, msg>>
  /\ pc' = "exited"
  /\ m' = [m EXCEPT !.exit = 1, !.why = "SetLabelInfoXml"]
  /\ h' = [hh EXCEPT !.labelWrites = @ + 1,
                     !.last = Remember(hh, "SetLabelInfoXml", NoLabels)]

\* SetLabels: SetLabelInfoXml writes the document of the new labels
SetLabels_SetLabelInfoXml ==
  /\ pc = "SetLabelInfoXml"
  /\ UNCHANGED <<args, codec>>
  /\ \E o \in Outcomes :
       LET hh == [h EXCEPT !.faults = Faulted(o)] IN
       IF ~CanCreate(fs, m.labelInfoPath)
         THEN /\ o = "ok"
              /\ UNCHANGED fs
              /\ SetLabelInfoXmlError("open " \o m.labelInfoPath
                                        \o ": no such file or directory", hh)
       ELSE IF o = "ioerr"
         THEN /\ fs' = WithFile(fs, m.labelInfoPath, Torn)
              /\ SetLabelInfoXmlError("write " \o m.labelInfoPath
                                        \o ": input/output error", hh)
       ELSE /\ fs' = WithFile(fs, m.labelInfoPath, Text(templateLabelInfoXml(newLabels)))
            /\ h' = [hh EXCEPT !.labelWrites = @ + 1]
            /\ pc' = "Zip"
            /\ UNCHANGED <<m, out>>

\* a SetLabels that packs the working directory straight into the archive file
SetLabels_ZipInPlace ==
  /\ pc = "Zip"
  /\ UNCHANGED <<args, codec>>
  /\ \E o \in Outcomes :
       IF o = "ioerr"
         THEN /\ fs' = WithFile(fs, m.filePath, Torn)
              /\ ExitError("read " \o m.tmpUnzipDir \o ": input/output error", "Zip",
                           [h EXCEPT !.faults = Faulted(o)])
       ELSE /\ fs' = WithFile(fs, m.filePath, Zip(fs, m.tmpUnzipDir))
            /\ m' = [m EXCEPT !.zipBytes = Zip(fs, m.tmpUnzipDir)]
            /\ h' = h
            /\ pc' = "WriteFile"
            /\ UNCHANGED out

\* SetLabels: Zip packs the working directory into a buffer
SetLabels_Zip ==
  /\ pc = "Zip"
  /\ UNCHANGED <<fs, args, codec>>
  /\ \E o \in Outcomes :
       LET hh == [h EXCEPT !.faults = Faulted(o)] IN
       IF o = "ioerr"
         THEN ExitError("read " \o m.tmpUnzipDir \o ": input/output error", "Zip", hh)
       ELSE /\ m' = [m EXCEPT !.zipBytes = Zip(fs, m.tmpUnzipDir)]
            /\ h' = hh
            /\ pc' = "WriteFile"
            /\ UNCHANGED out

\* SetLabels: os.WriteFile opens the archive with O_TRUNC
SetLabels_OpenFile ==
  /\ pc = "WriteFile"
  /\ UNCHANGED <<args, codec>>
  /\ \E o \in Outcomes :
       LET hh == [h EXCEPT !.faults = Faulted(o)] IN
       IF o = "ioerr" \/ ~CanCreate(fs, m.filePath)
         THEN /\ UNCHANGED fs
              /\ ExitError("open " \o m.filePath \o ": permission denied", "WriteFile", hh)
       ELSE /\ fs' = WithFile(fs, m.filePath, Text(""))
            /\ h' = [hh EXCEPT !.archiveOpens = @ + 1]
            /\ pc' = "Write"
            /\ UNCHANGED <<m, out>>

\* SetLabels: os.WriteFile writes the buffer; main then takes the new labels
SetLabels_Write ==
  /\ pc = "Write"
  /\ UNCHANGED <<args, codec>>
  /\ \E o \in Outcomes :
       LET hh == [h EXCEPT !.faults = Faulted(o)] IN
       IF o = "ioerr"
         THEN /\ \E c \in {Text(""), Torn} : fs' = WithFile(fs, m.filePath, c)
              /\ ExitError("write " \o m.filePath \o ": input/output error", "WriteFile", hh)
       ELSE /\ fs' = WithFile(fs, m.filePath, m.zipBytes)
            /\ m' = [m EXCEPT !.fl.Labels = newLabels]
            /\ h' = hh
            /\ pc' = "print"
            /\ UNCHANGED out

\* the label list of a report line: "id siteId" pairs with every brace removed
RECURSIVE labelsArr(_)
labelsArr(labels) ==
  IF Len(labels) = 0 THEN <<>>
  ELSE <<ReplaceAll(ReplaceAll(Head(labels).Id \o " " \o Head(labels).SiteId, "{", ""),
                    "}", "")>>
       \o labelsArr(Tail(labels))

\* the line PrintFileLabel prints for a FileLabel
FileLabelLine(fl) ==
  JoinStr(<<FormatBool(fl.LabelInfo), fl.FilePath, Itoa(Len(fl.Labels)),
            "[" \o JoinStr(labelsArr(fl.Labels), ", ") \o "]">>, " ")

\* main: PrintFileLabel, and the FileLabel is kept for the summary
PrintFileLabel ==
  /\ pc = "print"
  /\ out' = IF args.showLabeledOnly /\ Len(m.fl.Labels) = 0 THEN out
            ELSE Append(out, FileLabelLine(m.fl))
  /\ m' = [m EXCEPT !.fileLabels = Append(@, m.fl)]
  /\ h' = [h EXCEPT !.last = Remember(h, "", m.fl.Labels),
                    !.done = Append(@, fs[Abs(m.filePath)].data)]
  /\ pc' = "cleanup"
  /\ UNCHANGED <<fs, args, codec>>

\* main: cleanup removes the working directory unless --no-cleanup is given
cleanup ==
  /\ pc = "cleanup"
  /\ fs' = IF ~args.noCleanup THEN RemoveAll(fs, m.tmpUnzipDir) ELSE fs
  /\ pc' = "loop"
  /\ UNCHANGED <<args, m, out, h, codec>>

Next ==
  \/ checkArgs
  \/ main_Stat
  \/ main_Header
  \/ main_NextFile
  \/ main_Return
  \/ Unzip_Open
  \/ Unzip_Entry
  \/ main_Locate
  \/ GetLabelInfoXml
  \/ main_DryRun
  \/ SetLabels_SetLabelInfoXml
  \/ SetLabels_Zip
  \/ SetLabels_OpenFile
  \/ SetLabels_Write
  \/ PrintFileLabel
  \/ cleanup

Spec == Init /\ [][Next]_vars

(***************************************************************************)
(* The codec on its own: a LabelSet is encoded as SetLabelInfoXml encodes  *)
(* it and the document decoded as GetLabelInfoXml decodes it.              *)
(***************************************************************************)
MaxLabels == 2

\* the labels of the codec's inputs
CodecLabels ==
  {Label(id, siteId, enabled, "Privileged", "0", removed) :
     id \in {"", "a1", "x\"y"}, siteId \in {"", "t1"}, enabled \in {"", "1"},
     removed \in {"0"}}

\* the LabelSets of at most MaxLabels labels
CodecLabelSets == UNION {[1..n -> CodecLabels] : n \in 0..MaxLabels}

CodecInit ==
  /\ fs = InitialFs
  /\ pc = "codec"
  /\ args = NoArgs
  /\ m = M0
  /\ out = <<>>
  /\ h = H0
  /\ codec \in {[phase |-> "labels", labels |-> ls, doc |-> "", decoded |-> NoLabels] :
                  ls \in CodecLabelSets}

\* SetLabelInfoXml: the document of the labels
Codec_Encode ==
  /\ codec.phase = "labels"
  /\ codec' = [codec EXCEPT !.phase = "encoded", !.doc = templateLabelInfoXml(codec.labels)]
  /\ UNCHANGED <<fs, pc, args, m, out, h>>

\* GetLabelInfoXml: the labels of the document
Codec_Decode ==
  /\ codec.phase = "encoded"
  /\ codec' = [codec EXCEPT !.phase = "decoded", !.decoded = Unmarshal(codec.doc).labels]
  /\ UNCHANGED <<fs, pc, args, m, out, h>>

CodecNext == Codec_Encode \/ Codec_Decode

CodecSpec == CodecInit /\ [][CodecNext]_vars

(***************************************************************************)
(* The properties.                                                         *)
(***************************************************************************)
\* the elements of a path
Elements(p) == SelectSeq(Split(p, Separator), LAMBDA e : e # "")

\* the absolute path a lies strictly inside the directory d
StrictlyInside(a, d) ==
  /\ Len(Elements(a)) > Len(Elements(d))
  /\ SubSeq(Elements(a), 1, Len(Elements(d))) = Elements(d)

\* where the name of an archive entry resolves when joined to the destination
Resolved(dest, name) == Abs(Join(dest, name))

\* entry names that stay inside, leave, or come back to the destination
EntryNames ==
  {"a.txt", "d/a.txt", "d/", "../a.txt", "../../evil.txt", "d/../../a.txt", "/etc/a.txt",
   "..", "d/..", "..a", "./a.txt", "", "../_z.docx.txt", "../_z.docx/a.txt"}

\* Unzip is extracting entries, or has failed
Extracting == pc = "extract" \/ (pc = "exited" /\ m.why \in {"traversal", "Unzip"})

\* C4: an entry whose name, joined to the destination and cleaned, is not strictly
\* inside the destination makes Unzip fail with an error that names the joined path;
\* nothing is written for that entry or a later one, everything Unzip creates or
\* writes is strictly inside the destination, and what lies outside it is as it was
\* when the archive's cycle began.
C4_TraversalSafety ==
  /\ \A a \in h.written : StrictlyInside(a, Abs(m.tmpUnzipDir))
  /\ \A k \in 1..Len(m.entries) :
       k < m.ei => StrictlyInside(Resolved(m.tmpUnzipDir, m.entries[k].name),
                                  Abs(m.tmpUnzipDir))
  /\ Extracting =>
       \A a \in DOMAIN fs \cup DOMAIN h.fs0 :
         (a # Abs(m.tmpUnzipDir) /\ ~StrictlyInside(a, Abs(m.tmpUnzipDir)))
           => (a \in DOMAIN fs /\ a \in DOMAIN h.fs0 /\ fs[a] = h.fs0[a])
  /\ (pc = "exited" /\ m.why = "traversal") =>
       /\ ~StrictlyInside(Resolved(m.tmpUnzipDir, m.entries[m.ei].name), Abs(m.tmpUnzipDir))
       /\ m.exit = 1
       /\ out[Len(out)] =
            "illegal file path: " \o Join(m.tmpUnzipDir, m.entries[m.ei].name)
       /\ \A k \in m.ei..Len(m.entries) :
            Resolved(m.tmpUnzipDir, m.entries[k].name) \notin h.written
  /\ (pc = "extract" /\ m.ei = 1) =>
       \A name \in EntryNames :
         IsLegalPath(Join(m.tmpUnzipDir, name), m.tmpUnzipDir)
           => StrictlyInside(Resolved(m.tmpUnzipDir, name), Abs(m.tmpUnzipDir))

\* Unzip has failed on the traversing entry after it extracted an earlier entry
C4_Witness ==
  /\ pc = "exited"
  /\ m.why = "traversal"
  /\ m.ei = 2
  /\ h.written # {}

\* the extensions accepted by default
AcceptedExtensions == {".docx", ".xlsx", ".pptx"}

EndsWith(s, x) == Len(s) >= Len(x) /\ SubSeq(s, Len(s) - Len(x) + 1, Len(s)) = x

\* the names of the files directly in the directory d whose names end in an accepted
\* extension
MatchingChildren(f, d) ==
  {Drop(a, Len(d) + 1) :
     a \in {b \in DOMAIN f : /\ HasPrefix(b, d \o Separator)
                             /\ Index(Drop(b, Len(d) + 1), Separator) = 0
                             /\ ~f[b].dir
                             /\ \E x \in AcceptedExtensions : EndsWith(b, x)}}

\* C10: the discovery over a directory returns exactly the files directly in it whose
\* final extension is, case-sensitively, an accepted one, each once: no directory, no
\* file of a subdirectory, no other extension; for docs that is a.docx, c.xlsx, p.docx.
C10_NonRecursiveDiscovery ==
  (pc = "header" /\ IsDir(fs, args.path)) =>
    /\ {m.files[k] : k \in 1..Len(m.files)} = MatchingChildren(fs, Abs(args.path))
    /\ Len(m.files) = Cardinality(MatchingChildren(fs, Abs(args.path)))
    /\ args.path = "docs" => m.files = <<"a.docx", "c.xlsx", "p.docx">>

\* the files of docs are listed while it holds a directory named old.docx, a file
\* d.DOCX, a file b.txt and a file sub/e.pptx
C10_Witness ==
  /\ pc = "header"
  /\ args.path = "docs"
  /\ Len(m.files) = 3
  /\ IsDir(fs, "docs/old.docx")
  /\ IsFile(fs, "docs/d.DOCX")
  /\ IsFile(fs, "docs/b.txt")
  /\ IsFile(fs, "docs/sub/e.pptx")

\* the contents of the archive of the current cycle
ArchiveData == IF IsFile(fs, m.filePath) THEN fs[Abs(m.filePath)].data ELSE NoData

\* SetLabels has failed in SetLabelInfoXml or in Zip
FailedBeforeWrite == pc = "exited" /\ m.why \in {"SetLabelInfoXml", "Zip"}

\* C3: when writing the label document or repacking the working directory fails,
\* SetLabels returns the error (main exits with status 1) and the archive file has
\* not been opened for writing and holds its original contents; the archive is opened
\* for writing only once the whole repacked stream is in the buffer.
C3_FailureBeforeWriteLeavesArchive ==
  /\ (pc \in {"SetLabelInfoXml", "Zip", "WriteFile"} \/ FailedBeforeWrite) =>
       /\ h.archiveOpens = 0
       /\ ArchiveData = h.orig
  /\ FailedBeforeWrite => (m.exit = 1 /\ m.zipBytes = NoData)
  /\ pc \in {"WriteFile", "Write"} =>
       /\ m.zipBytes = Zip(fs, m.tmpUnzipDir)
       /\ Len(m.zipBytes.entries) > 0
  /\ h.archiveOpens > 0 => m.zipBytes.kind = "zip"

\* the repack has failed after the label document was written
C3_Witness ==
  /\ pc = "exited"
  /\ m.why = "Zip"
  /\ h.labelWrites = 1
  /\ Exists(fs, m.labelInfoPath)

\* an identifier as a report shows it: without its enclosing braces
RECURSIVE Unbraced(_)
Unbraced(id) ==
  IF Len(id) >= 2 /\ Ch(id, 1) = "{" /\ Ch(id, Len(id)) = "}"
    THEN Unbraced(SubSeq(id, 2, Len(id) - 1))
    ELSE id

\* the report line of a file with the one label A/B
OneLabelLine(present, filePath, A, B) ==
  FormatBool(present) \o " " \o filePath \o " 1 [" \o Unbraced(A) \o " " \o Unbraced(B) \o "]"

\* the entries of an archive that hold the label document
StoredDocs(data) ==
  {k \in 1..Len(data.entries) : data.entries[k].name = "docMetadata/LabelInfo.xml"}

\* the LabelSet stored in an archive: its label document decoded, none without one
StoredLabels(data) ==
  IF StoredDocs(data) = {} THEN <<>>
  ELSE Unmarshal(data.entries[MaxOf(StoredDocs(data))].data.s).labels

\* a get has just reported the archive that the last set cycle, a dry run, left
GetAfterDryRun ==
  /\ args.cmd = "get"
  /\ pc = "cleanup"
  /\ h.faults = 0
  /\ Abs(m.filePath) \in DOMAIN h.last
  /\ h.last[Abs(m.filePath)].dryrun

\* C2: with dry-run, set reports the one label A/B of each file, never writes a label
\* document and never opens the archive for writing: every file and directory that was
\* on disk is as it was, the extracted label document is as extracted; and a get that
\* follows reports the LabelSet the archive held before the dry run.
C2_DryRunLeavesArchive ==
  /\ args.dryrun =>
       /\ h.labelWrites = 0
       /\ h.archiveOpens = 0
       /\ \A a \in DOMAIN InitialFs : a \in DOMAIN fs /\ fs[a] = InitialFs[a]
       /\ m.filePath # "" => ArchiveData = h.orig
       /\ pc = "cleanup" =>
            /\ m.fl.Labels = <<Label(args.labelId, args.tenantId, "1", "Privileged", "0", "0")>>
            /\ out[Len(out)] =
                 OneLabelLine(m.labelInfoExists, m.filePath, args.labelId, args.tenantId)
            /\ IF m.labelInfoExists
                 THEN ReadFile(fs, m.labelInfoPath, "ok")
                        = h.orig.entries[MaxOf(StoredDocs(h.orig))].data.s
                 ELSE ~Exists(fs, m.labelInfoPath)
  /\ GetAfterDryRun =>
       /\ ArchiveData = h.last[Abs(m.filePath)].before
       /\ m.fl.Labels = StoredLabels(h.last[Abs(m.filePath)].before)
       /\ out[Len(out)] =
            FileLabelLine([FilePath |-> m.filePath,
                           LabelInfo |-> StoredDocs(h.last[Abs(m.filePath)].before) # {},
                           Labels |-> StoredLabels(h.last[Abs(m.filePath)].before)])

\* a get reports the two labels of an archive after a dry-run set of that archive
C2_Witness ==
  /\ GetAfterDryRun
  /\ Len(m.fl.Labels) = 2
  /\ h.last[Abs(m.filePath)].why = ""
  /\ h.last[Abs(m.filePath)].labels # m.fl.Labels

\* a get has just reported an archive that the last set cycle, not a dry run, extracted
GetAfterSet ==
  /\ args.cmd = "get"
  /\ pc = "cleanup"
  /\ h.faults = 0
  /\ Abs(m.filePath) \in DOMAIN h.last
  /\ ~h.last[Abs(m.filePath)].dryrun
  /\ h.last[Abs(m.filePath)].why \notin {"Unzip", "traversal"}

\* C1: after a set A B, not a dry run, of an archive that extracts, a get of the
\* archive reports exactly one label, with identifier A and tenant identifier B.
C1_SetThenGetReportsOneLabel ==
  GetAfterSet =>
    /\ Len(m.fl.Labels) = 1
    /\ out[Len(out)] = OneLabelLine(TRUE, m.filePath, h.last[Abs(m.filePath)].labelId,
                                    h.last[Abs(m.filePath)].tenantId)

\* C5: unless cleanup is suppressed, no working directory that the run has created is
\* on disk when a cycle is over or when the process has exited.
C5_WorkingDirectoryRemoved ==
  (pc \in {"loop", "exited"} /\ ~args.noCleanup) =>
    \A d \in h.madeDirs : d \notin DOMAIN fs

\* C6: decoding the document that encodes a LabelSet gives the LabelSet: as many
\* labels, in the same order, equal in all six fields.
C6_RoundTrip == codec.phase = "decoded" => codec.decoded = codec.labels

\* a set, not a dry run, has ended for an archive whose extracted tree had no label
\* document, and no input or output operation has failed
SetWithoutDocumentEnded ==
  /\ args.cmd = "set"
  /\ ~args.dryrun
  /\ h.faults = 0
  /\ pc = "exited"
  /\ m.filePath # ""
  /\ m.fl.FilePath = m.filePath
  /\ ~m.labelInfoExists

\* C7: a set, not a dry run, of an archive without a label document succeeds, and
\* the rewritten archive holds docMetadata/LabelInfo.xml with the new label.
C7_SetCreatesMissingDocument ==
  SetWithoutDocumentEnded =>
    /\ m.exit = 0
    /\ StoredDocs(ArchiveData) # {}
    /\ ArchiveData.entries[MaxOf(StoredDocs(ArchiveData))].data
         = Text(templateLabelInfoXml(newLabels))

\* C8: in every state of an archive's cycle the archive file holds its complete
\* original contents or the complete repacked stream.
C8_AtomicReplacement ==
  (m.filePath # "" /\ h.orig # NoData) =>
    \/ ArchiveData = h.orig
    \/ (m.zipBytes # NoData /\ ArchiveData = m.zipBytes)

\* C9: with the recursive option a run over a directory processes, each at its own
\* location, every file of the directory's subtree that has an accepted extension.
C9_RecursiveCoversSubtree ==
  (pc = "header" /\ args.recurse /\ IsDir(fs, args.path)) =>
    \A a \in DOMAIN fs :
      (/\ StrictlyInside(a, Abs(args.path))
       /\ ~fs[a].dir
       /\ \E x \in AcceptedExtensions : EndsWith(a, x))
        => \E k \in 1..Len(m.files) : Abs(m.path \o "/" \o m.files[k]) = a

\* the calls of a file's cycle that can fail: Unzip (an entry that leaves the
\* destination apart) and the three steps of SetLabels
CycleFailures == {"Unzip", "traversal", "SetLabelInfoXml", "Zip", "WriteFile"}

\* the run has ended in the cycle of one of several files
FailedAmongSeveral ==
  pc = "exited" /\ m.why \in CycleFailures /\ Len(m.files) > 1

\* the archive and the working directory of the k-th file of the run
ArchiveOf(k) == Abs(m.path \o "/" \o m.files[k])

WorkDirOf(k) == Abs(args.tmpDir \o "/_" \o m.files[k])

\* the path a and everything below it are in g what they are in f
SameTree(f, g, a) ==
  \A q \in {r \in DOMAIN f \cup DOMAIN g : HasPrefix(r \o Separator, a \o Separator)} :
    q \in DOMAIN f /\ q \in DOMAIN g /\ f[q] = g[q]

\* C11: a failure of Unzip or of SetLabels in the cycle of one file ends the run with
\* status 1: the files after it in the list are not extracted (their working
\* directories are as they were when the run began), not reported and not overwritten,
\* while the files before it keep their report lines, in order, and their archives
\* hold what they held when their cycles ended.
C11_FailureEndsRun ==
  /\ m.why \in CycleFailures => (pc = "exited" /\ m.exit = 1)
  /\ FailedAmongSeveral =>
       /\ Len(m.fileLabels) = m.idx - 1
       /\ Len(h.done) = m.idx - 1
       /\ ReportLines(out) = [k \in 1..(m.idx - 1) |-> FileLabelLine(m.fileLabels[k])]
       /\ \A k \in 1..(m.idx - 1) :
            /\ m.fileLabels[k].FilePath = m.path \o "/" \o m.files[k]
            /\ FileAt(fs, ArchiveOf(k))
            /\ fs[ArchiveOf(k)].data = h.done[k]
       /\ \A k \in (m.idx + 1)..Len(m.files) :
            /\ SameTree(fs, h.runFs, ArchiveOf(k))
            /\ SameTree(fs, h.runFs, WorkDirOf(k))

\* a set over three files has failed in the second: the first archive is rewritten
\* and reported, the third is on disk as it was
C11_Witness ==
  /\ FailedAmongSeveral
  /\ args.cmd = "set"
  /\ ~args.dryrun
  /\ Len(m.files) = 3
  /\ m.idx = 2
  /\ Len(ReportLines(out)) = 1
  /\ fs[ArchiveOf(1)] # h.runFs[ArchiveOf(1)]
  /\ FileAt(fs, ArchiveOf(3))

\* the archives on disk in the file system f
Archives(f) == {a \in DOMAIN f : ~f[a].dir /\ f[a].data.kind = "zip"}

\* a get run has ended that follows a get run of the same path, and no input or
\* output operation has failed
SecondGetEnded ==
  /\ pc = "exited"
  /\ args.cmd = "get"
  /\ h.prev.cmd = "get"
  /\ h.prev.path = args.path
  /\ h.faults = 0

\* C12: a get run leaves every archive on disk as it was when the run began, and a
\* get run that follows a get run of the same path prints the same report lines.
C12_GetIdempotent ==
  /\ args.cmd = "get" =>
       \A a \in Archives(h.runFs) : a \in DOMAIN fs /\ fs[a] = h.runFs[a]
  /\ SecondGetEnded => ReportLines(out) = h.prev.lines

\* the label document of the current file could not be read or was rejected by
\* xml.Unmarshal, and the labels of the file are those GetLabelInfoXml returned
DecodeFailed ==
  /\ h.xmlErr
  /\ \/ pc \in {"dryrun", "SetLabelInfoXml", "Zip", "WriteFile", "Write"}
     \/ args.cmd = "get" /\ pc \in {"print", "cleanup"}

\* C13: a label document that cannot be read, or that xml.Unmarshal rejects, gives
\* the file an empty LabelSet; the run goes on, a get reports the file with the count
\* 0 and the list [], and a set writes its label and rewrites the archive.
C13_UnparsableDecodesEmpty ==
  /\ DecodeFailed => m.fl.Labels = NoLabels
  /\ (h.xmlErr /\ args.cmd = "get") => m.exit = 0
  /\ (h.xmlErr /\ args.cmd = "get" /\ pc = "cleanup") =>
       out[Len(out)] = "true " \o m.filePath \o " 0 []"

\* name="value"
Attribute(name, value) == name \o "=\"" \o value \o "\""

\* the self-closing label element with the six attributes in their order
CanonicalElement(label) ==
  "<clbl:label "
    \o JoinStr(<<Attribute("id", "{" \o label.Id \o "}"),
                 Attribute("enabled", label.Enabled),
                 Attribute("method", label.Method),
                 Attribute("siteId", "{" \o label.SiteId \o "}"),
                 Attribute("contentBits", label.ContentBits),
                 Attribute("removed", label.Removed)>>, " ")
    \o "/>"

\* the elements of the labels up to the n-th, one after the other
RECURSIVE CanonicalElements(_, _)
CanonicalElements(labels, n) ==
  IF n = 0 THEN ""
  ELSE CanonicalElements(labels, n - 1) \o CanonicalElement(labels[n])

\* the declaration and the start tag of the root with the clbl namespace
CanonicalProlog ==
  "<?xml version=\"1.0\" encoding=\"utf-8\" standalone=\"yes\"?>"
    \o "<clbl:labelList xmlns:clbl=\"http://schemas.microsoft.com/office/2020/mipLabelMetadata\">"

\* C14: the document of a LabelSet is the declaration, the start tag of the labelList
\* root with the clbl namespace, one self-closing label element for each label in the
\* order of the LabelSet, and the end tag of the root; an element holds id, enabled,
\* method, siteId, contentBits, removed in this order, id and siteId inside one pair
\* of braces and the other values as they are; with no label the root has no child.
C14_CanonicalEncoding ==
  codec.phase \in {"encoded", "decoded"} =>
    /\ codec.doc = CanonicalProlog \o CanonicalElements(codec.labels, Len(codec.labels))
                     \o "</clbl:labelList>"
    /\ Cardinality(Occurrences(codec.doc, "<clbl:label ", 1)) = Len(codec.labels)
    /\ codec.labels = NoLabels => codec.doc = CanonicalProlog \o "</clbl:labelList>"

\* a LabelSet of two different labels is encoded, the first with the identifier a1
\* and an empty tenant identifier
C14_Witness ==
  /\ codec.phase = "encoded"
  /\ Len(codec.labels) = 2
  /\ codec.labels[1] # codec.labels[2]
  /\ codec.labels[1].Id = "a1"
  /\ codec.labels[1].SiteId = ""
  /\ Index(codec.doc, "id=\"{a1}\" enabled=\"1\" method=\"Privileged\" siteId=\"{}\"") > 0

\* SetLabels has returned without an error in the cycle of the current file
SetSucceeded ==
  args.cmd = "set" /\ ~args.dryrun /\ pc \in {"print", "cleanup"}

LabelDocName == "docMetadata/LabelInfo.xml"

\* the entries of an archive that are regular files other than the label document
KeptEntries(data) ==
  {k \in 1..Len(data.entries) :
     ~IsDirEntry(data.entries[k]) /\ data.entries[k].name # LabelDocName}

\* the entries of an archive with the name and the contents of the entry e
Copies(data, e) == {k \in 1..Len(data.entries) : data.entries[k] = e}

WorkingFiles ==
  {a \in DOMAIN fs : ~fs[a].dir /\ StrictlyInside(a, Abs(m.tmpUnzipDir))}

\* C16: when the label locator runs, and when the packer runs, every file in the
\* working directory of the archive has been extracted from the archive in this
\* cycle, or is the label document that set has just written.
C16_WorkingDirectoryOwned ==
  /\ pc = "locate" => WorkingFiles \subseteq h.written
  /\ pc = "Zip" => WorkingFiles \subseteq h.written \cup {Abs(m.labelInfoPath)}

\* the path argument named a regular file when the run began, and main has built
\* the path of the file to process
SingleFileTaken == IsFile(h.runFs, args.path) /\ m.filePath # ""

\* C17: when the path argument names a regular file, the path that main extracts,
\* reports and overwrites resolves to that file.
C17_SingleFilePath ==
  SingleFileTaken =>
    /\ Abs(m.filePath) = Abs(args.path)
    /\ pc = "cleanup" => Abs(m.fl.FilePath) = Abs(args.path)

====
